---------------------------- MODULE Spec2Model ----------------------------
(***************************************************************************)
(* Model of the validation harness (src/logtest.h: validateAccuracy and   *)
(* validateWorker) and of the approximant family (src/logapprox.h:        *)
(* fastLog2p1 .. fastLog2p6).                                              *)
(*                                                                         *)
(* Harness: the orchestrating thread partitions the sample indices, starts *)
(* one worker thread per partition, collects one future per worker,       *)
(* reduces them with an element-wise maximum, joins the threads and       *)
(* prints.  The floating-point error measured at a sample index is an     *)
(* input of the model: err[i] is the vector of the six |log2(x) -         *)
(* fastLog2pK(x)| values at index i, drawn from ErrVectors.                *)
(*                                                                         *)
(* Approximants: a floating-point value is a record (class, sign, integer *)
(* significand, binary exponent); comparisons follow IEEE-754.            *)
(***************************************************************************)
EXTENDS Integers, Sequences, FiniteSets, TLC

\* ------------------------------------------------------------------ bounds

\* largest uNumSamples explored
MaxN == 3

\* largest uNumThreads explored
MaxW == 3

\* width in bits of the model's size_t (the arithmetic of validateAccuracy
\* is unsigned and wraps modulo 2^SizeBits)
SizeBits == 16

\* largest integer significand of a finite input of an approximant
MaxMant == 9

\* the binary exponents of finite inputs range over -MaxExp .. MaxExp
MaxExp == 3

\* ------------------------------------------------- constants of the program

\* double dMaxError[7]
NumSlots == 7

\* slots dMaxError[0] .. dMaxError[5] are written by validateWorker
NumApprox == 6

\* ------------------------------------------------------------- arithmetic

RECURSIVE Pow2(_)
Pow2(k) == IF k <= 0 THEN 1 ELSE 2 * Pow2(k - 1)

SizeMod == Pow2(SizeBits)

\* size_t addition and subtraction
UAdd(a, b) == (a + b) % SizeMod
USub(a, b) == (a - b + SizeMod) % SizeMod

\* std::min
Min(a, b) == IF b < a THEN b ELSE a

\* ------------------------------------------------------------ error vectors

\* MaxErrorFuture: double dMaxError[7] = { 0 }
ZeroError == [k \in 1..NumSlots |-> 0]

\* the per-index measurements the model draws from (one entry per approximant)
ErrVectors == { <<0, 0, 0, 0, 0, 0>>, <<2, 1, 2, 1, 2, 1>>, <<1, 2, 1, 2, 1, 2>> }


\* ------------------------------------------------------------------- state

VARIABLES
    uNumSamples,    \* validateAccuracy argument N
    uNumThreads,    \* validateAccuracy argument W
    err,            \* err[i]: the six measured errors at sample index i
    pc,             \* position of the orchestrating thread
    uNumSamplesPerThread, uStart, uEnd, i,    \* locals of the start loop
    fi,             \* position of the range-for over futures
    ti,             \* position of the range-for over threadList
    dMaxError,      \* validateAccuracy's double dMaxError[7]
    out,            \* what was written to std::cout: <<>> or <<vector>>
    wpc,            \* wpc[w]: position of worker thread w
    wStart, wEnd,   \* the uStart, uEnd arguments worker w was started with
    wi,             \* worker w's loop variable i
    retVal,         \* worker w's MaxErrorFuture retVal
    promise,        \* promises[w]: [ready, val] shared state
    setCount,       \* number of set_value calls on promises[w]
    joined,         \* threadList[w]->join() has returned
    value, deg, apc, result     \* one call of fastLog2p<deg>(value)

hvars == << uNumSamples, uNumThreads, err, pc, uNumSamplesPerThread, uStart,
            uEnd, i, fi, ti, dMaxError, out, wpc, wStart, wEnd, wi, retVal,
            promise, setCount, joined >>

avars == << value, deg, apc, result >>

vars == << hvars, avars >>

Workers == 0 .. (uNumThreads - 1)

\* --------------------------------------------------------- validateWorker

\* one pass of the loop body: if(dDiff > dMaxError[k]) dMaxError[k] = dDiff
\* for the six approximants; dMaxError[6] is left alone
WorkerUpdate(acc, e) ==
    [k \in 1..NumSlots |->
        IF k <= NumApprox /\ e[k] > acc[k] THEN e[k] ELSE acc[k]]

\* the sweep stops one index early
LoopCondShort(idx, end) == idx + 1 < end

\* loop condition of for(size_t i = uStart; i < uEnd; ++i)
LoopCond(idx, end) == idx < end

\* the measurement at sample index idx
ErrAt(idx) == IF idx \in DOMAIN err THEN err[idx] ELSE <<0, 0, 0, 0, 0, 0>>

\* one iteration of the sweep
WorkerIter(w) ==
    /\ wpc[w] = "loop"
    /\ LoopCond(wi[w], wEnd[w])
    /\ retVal' = [retVal EXCEPT ![w] = WorkerUpdate(@, ErrAt(wi[w]))]
    /\ wi' = [wi EXCEPT ![w] = UAdd(@, 1)]
    /\ UNCHANGED << uNumSamples, uNumThreads, err, pc, uNumSamplesPerThread,
                    uStart, uEnd, i, fi, ti, dMaxError, out, wpc, wStart,
                    wEnd, promise, setCount, joined >>
    /\ UNCHANGED avars

\* loop exit, then promiseObj->set_value(std::move(retVal))
WorkerSetValue(w) ==
    /\ wpc[w] = "loop"
    /\ ~LoopCond(wi[w], wEnd[w])
    /\ promise' = [promise EXCEPT ![w] = [ready |-> TRUE, val |-> retVal[w]]]
    /\ setCount' = [setCount EXCEPT ![w] = @ + 1]
    /\ wpc' = [wpc EXCEPT ![w] = "return"]
    /\ UNCHANGED << uNumSamples, uNumThreads, err, pc, uNumSamplesPerThread,
                    uStart, uEnd, i, fi, ti, dMaxError, out, wStart, wEnd,
                    wi, retVal, joined >>
    /\ UNCHANGED avars

\* validateWorker returns and the thread ends
WorkerExit(w) ==
    /\ wpc[w] = "return"
    /\ wpc' = [wpc EXCEPT ![w] = "terminated"]
    /\ UNCHANGED << uNumSamples, uNumThreads, err, pc, uNumSamplesPerThread,
                    uStart, uEnd, i, fi, ti, dMaxError, out, wStart, wEnd,
                    wi, retVal, promise, setCount, joined >>
    /\ UNCHANGED avars

\* ------------------------------------------------------- validateAccuracy

\* the last range ends at uNumSamples instead of uNumSamples+1
NextEndHalfOpen(idx, nThreads, nSamples, start, per) ==
    IF idx = USub(nThreads, 2) THEN nSamples ELSE UAdd(start, per)

\* uEnd = (i == (uNumThreads - 2)) ? uNumSamples+1 : (uStart + uNumSamplesPerThread)
\* (uStart is the value assigned on the line before)
NextEnd(idx, nThreads, nSamples, start, per) ==
    IF idx = USub(nThreads, 2) THEN UAdd(nSamples, 1) ELSE UAdd(start, per)

\* assignment in place of std::max
ReduceOverwrite(acc, tf) == tf

\* std::max element-wise over all seven slots
ReduceMax(acc, tf) ==
    [k \in 1..NumSlots |-> IF acc[k] < tf[k] THEN tf[k] ELSE acc[k]]

\* the result is read without waiting for set_value
FutureReadyAlways(w) == TRUE

\* f.get() returns once the shared state is ready
FutureReady(w) == promise[w].ready

\* the thread is let go without waiting for its end
JoinableAlways(w) == TRUE

\* t->join() returns once the thread has ended
Joinable(w) == wpc[w] = "terminated"

\* the declarations and the three assignments before the start loop
Begin ==
    /\ pc = "begin"
    /\ uNumSamplesPerThread' = uNumSamples \div uNumThreads
    /\ uStart' = 0
    /\ uEnd' = Min(UAdd(0, uNumSamples \div uNumThreads), uNumSamples)
    /\ i' = 0
    /\ pc' = "start"
    /\ UNCHANGED << uNumSamples, uNumThreads, err, fi, ti, dMaxError, out,
                    wpc, wStart, wEnd, wi, retVal, promise, setCount, joined >>
    /\ UNCHANGED avars

\* one pass of the start loop: get_future, start the thread, advance the range
StartWorker ==
    /\ pc = "start"
    /\ i < uNumThreads
    /\ wpc' = [wpc EXCEPT ![i] = "loop"]
    /\ wStart' = [wStart EXCEPT ![i] = uStart]
    /\ wEnd' = [wEnd EXCEPT ![i] = uEnd]
    /\ wi' = [wi EXCEPT ![i] = uStart]
    /\ uStart' = uEnd
    /\ uEnd' = NextEnd(i, uNumThreads, uNumSamples, uEnd, uNumSamplesPerThread)
    /\ i' = i + 1
    /\ IF i + 1 < uNumThreads
         THEN UNCHANGED << pc, fi, dMaxError >>
         ELSE /\ pc' = "get"
              /\ fi' = 0
              /\ dMaxError' = ZeroError
    /\ UNCHANGED << uNumSamples, uNumThreads, err, uNumSamplesPerThread, ti,
                    out, retVal, promise, setCount, joined >>
    /\ UNCHANGED avars

\* one pass of for(auto &&f : futures): get, then the element-wise maximum
GetFuture ==
    /\ pc = "get"
    /\ FutureReady(fi)
    /\ dMaxError' = ReduceMax(dMaxError, promise[fi].val)
    /\ fi' = fi + 1
    /\ IF fi + 1 < uNumThreads
         THEN UNCHANGED << pc, ti >>
         ELSE pc' = "join" /\ ti' = 0
    /\ UNCHANGED << uNumSamples, uNumThreads, err, uNumSamplesPerThread,
                    uStart, uEnd, i, out, wpc, wStart, wEnd, wi, retVal,
                    promise, setCount, joined >>
    /\ UNCHANGED avars

\* one pass of for(auto &&t : threadList): t->join()
JoinThread ==
    /\ pc = "join"
    /\ Joinable(ti)
    /\ joined' = [joined EXCEPT ![ti] = TRUE]
    /\ ti' = ti + 1
    /\ pc' = IF ti + 1 < uNumThreads THEN "join" ELSE "print"
    /\ UNCHANGED << uNumSamples, uNumThreads, err, uNumSamplesPerThread,
                    uStart, uEnd, i, fi, dMaxError, out, wpc, wStart, wEnd,
                    wi, retVal, promise, setCount >>
    /\ UNCHANGED avars

\* the "Max errors: " line; validateAccuracy returns
PrintResult ==
    /\ pc = "print"
    /\ out' = << dMaxError >>
    /\ pc' = "done"
    /\ UNCHANGED << uNumSamples, uNumThreads, err, uNumSamplesPerThread,
                    uStart, uEnd, i, fi, ti, dMaxError, wpc, wStart, wEnd,
                    wi, retVal, promise, setCount, joined >>
    /\ UNCHANGED avars

\* ------------------------------------ validateAccuracy as a function of N, W

\* validateWorker's sweep from idx to end, started with accumulator acc
RECURSIVE Sweep(_, _, _)
Sweep(idx, end, acc) ==
    IF LoopCond(idx, end)
      THEN Sweep(UAdd(idx, 1), end, WorkerUpdate(acc, ErrAt(idx)))
      ELSE acc

\* the value validateWorker(uNumSamples, start, end, promise) reports
validateWorker(start, end) == Sweep(start, end, ZeroError)

\* the start loop from pass idx on: the <<uStart, uEnd>> pairs handed out
RECURSIVE StartLoop(_, _, _, _, _, _)
StartLoop(idx, nThreads, nSamples, start, end, per) ==
    IF idx < nThreads
      THEN << << start, end >> >> \o
           StartLoop(idx + 1, nThreads, nSamples, end,
                     NextEnd(idx, nThreads, nSamples, end, per), per)
      ELSE << >>

\* the ranges validateAccuracy(nSamples, nThreads) hands to its workers
Partition(nSamples, nThreads) ==
    StartLoop(0, nThreads, nSamples, 0,
              Min(UAdd(0, nSamples \div nThreads), nSamples),
              nSamples \div nThreads)

\* the loop over futures, taken in order, from position k on
RECURSIVE Collect(_, _, _)
Collect(ranges, k, acc) ==
    IF k > Len(ranges)
      THEN acc
      ELSE Collect(ranges, k + 1,
                   ReduceMax(acc, validateWorker(ranges[k][1], ranges[k][2])))

\* the vector validateAccuracy(nSamples, nThreads) prints
validateAccuracy(nSamples, nThreads) ==
    Collect(Partition(nSamples, nThreads), 1, ZeroError)

\* ------------------------------------------------------------ approximants

\* floating-point values: NaN, infinity, or (-1)^neg * mant * 2^exp
NaN(sign) == [cls |-> "nan", neg |-> sign, mant |-> 0, exp |-> 0]
Inf(sign) == [cls |-> "inf", neg |-> sign, mant |-> 0, exp |-> 0]
Fin(sign, m, e) == [cls |-> "fin", neg |-> sign, mant |-> m, exp |-> e]

\* std::isfinite(value)
IsFinite(v) == v.cls = "fin"

\* value == std::numeric_limits<T>::infinity()
EqInfinity(v) == v.cls = "inf" /\ ~v.neg

\* value >= 0 in place of value > 0
GeZero(v) == v.cls # "nan" /\ (v.mant = 0 \/ ~v.neg)

\* value > 0   (false for NaN and for both zeros)
GtZero(v) == v.cls # "nan" /\ ~v.neg /\ (v.cls = "inf" \/ v.mant > 0)

\* value == 0  (true for +0 and -0, false for NaN)
EqZero(v) == v.cls = "fin" /\ v.mant = 0

\* number of binary digits of n
RECURSIVE BitLen(_)
BitLen(n) == IF n <= 0 THEN 0 ELSE 1 + BitLen(n \div 2)

\* a decomposition normalised to [1, 2) in place of [0.5, 1)
FrexpOneTwo(v) ==
    [ dM   |-> Fin(FALSE, v.mant, 1 - BitLen(v.mant)),
      iExp |-> v.exp + BitLen(v.mant) - 1 ]

\* T dM = frexp(value, &iExp) for a positive finite value
Frexp(v) ==
    [ dM   |-> Fin(FALSE, v.mant, 0 - BitLen(v.mant)),
      iExp |-> v.exp + BitLen(v.mant) ]

\* the body shared by the six approximants; d is the degree of P and Q.
\* A result is a special value, or iExp + P(dM)/Q(dM) kept as its parts.
fastLog2p(d, v) ==
    IF ~IsFinite(v)
      THEN [kind |-> "special", degree |-> d,
            val |-> IF EqInfinity(v) THEN v ELSE NaN(FALSE),
            iExp |-> 0, dM |-> Fin(FALSE, 0, 0)]
      ELSE IF GtZero(v)
        THEN [kind |-> "approx", degree |-> d, val |-> Fin(FALSE, 0, 0),
              iExp |-> Frexp(v).iExp, dM |-> Frexp(v).dM]
        ELSE [kind |-> "special", degree |-> d,
              val |-> IF EqZero(v) THEN Inf(TRUE) ELSE NaN(TRUE),
              iExp |-> 0, dM |-> Fin(FALSE, 0, 0)]

fastLog2p1(v) == fastLog2p(1, v)
fastLog2p2(v) == fastLog2p(2, v)
fastLog2p3(v) == fastLog2p(3, v)
fastLog2p4(v) == fastLog2p(4, v)
fastLog2p5(v) == fastLog2p(5, v)
fastLog2p6(v) == fastLog2p(6, v)

NoResult ==
    [kind |-> "none", degree |-> 0, val |-> Fin(FALSE, 0, 0), iExp |-> 0,
     dM |-> Fin(FALSE, 0, 0)]

\* the inputs explored
Inputs ==
    { NaN(s) : s \in BOOLEAN } \cup { Inf(s) : s \in BOOLEAN } \cup
    { Fin(s, m, e) : s \in BOOLEAN, m \in 0..MaxMant, e \in (0 - MaxExp)..MaxExp }

CallP1 == apc = "call" /\ result' = fastLog2p1(value) /\ deg' = 1 /\ apc' = "ret"
             /\ UNCHANGED << value, hvars >>
CallP2 == apc = "call" /\ result' = fastLog2p2(value) /\ deg' = 2 /\ apc' = "ret"
             /\ UNCHANGED << value, hvars >>
CallP3 == apc = "call" /\ result' = fastLog2p3(value) /\ deg' = 3 /\ apc' = "ret"
             /\ UNCHANGED << value, hvars >>
CallP4 == apc = "call" /\ result' = fastLog2p4(value) /\ deg' = 4 /\ apc' = "ret"
             /\ UNCHANGED << value, hvars >>
CallP5 == apc = "call" /\ result' = fastLog2p5(value) /\ deg' = 5 /\ apc' = "ret"
             /\ UNCHANGED << value, hvars >>
CallP6 == apc = "call" /\ result' = fastLog2p6(value) /\ deg' = 6 /\ apc' = "ret"
             /\ UNCHANGED << value, hvars >>

\* ------------------------------------------------------- the harness's runs

AllW == 0 .. (MaxW - 1)

\* no approximant call is under way
AIdle ==
    /\ value = Fin(FALSE, 1, 0)
    /\ deg = 0
    /\ apc = "idle"
    /\ result = NoResult

\* no validateAccuracy run is under way
HIdle ==
    /\ uNumSamples = 1
    /\ uNumThreads = 1
    /\ err = [k \in 0..1 |-> <<0, 0, 0, 0, 0, 0>>]
    /\ pc = "idle"
    /\ uNumSamplesPerThread = 0
    /\ uStart = 0
    /\ uEnd = 0
    /\ i = 0
    /\ fi = 0
    /\ ti = 0
    /\ dMaxError = ZeroError
    /\ out = << >>
    /\ wpc = [w \in AllW |-> "unborn"]
    /\ wStart = [w \in AllW |-> 0]
    /\ wEnd = [w \in AllW |-> 0]
    /\ wi = [w \in AllW |-> 0]
    /\ retVal = [w \in AllW |-> ZeroError]
    /\ promise = [w \in AllW |-> [ready |-> FALSE, val |-> ZeroError]]
    /\ setCount = [w \in AllW |-> 0]
    /\ joined = [w \in AllW |-> FALSE]

Init ==
    /\ uNumSamples \in 1..MaxN
    /\ uNumThreads \in 1..MaxW
    /\ err \in [0..uNumSamples -> ErrVectors]
    /\ pc = "begin"
    /\ uNumSamplesPerThread = 0
    /\ uStart = 0
    /\ uEnd = 0
    /\ i = 0
    /\ fi = 0
    /\ ti = 0
    /\ dMaxError = ZeroError
    /\ out = << >>
    /\ wpc = [w \in AllW |-> "unborn"]
    /\ wStart = [w \in AllW |-> 0]
    /\ wEnd = [w \in AllW |-> 0]
    /\ wi = [w \in AllW |-> 0]
    /\ retVal = [w \in AllW |-> ZeroError]
    /\ promise = [w \in AllW |-> [ready |-> FALSE, val |-> ZeroError]]
    /\ setCount = [w \in AllW |-> 0]
    /\ joined = [w \in AllW |-> FALSE]
    /\ AIdle

Next ==
    \/ Begin
    \/ StartWorker
    \/ GetFuture
    \/ JoinThread
    \/ PrintResult
    \/ \E w \in Workers : WorkerIter(w)
    \/ \E w \in Workers : WorkerSetValue(w)
    \/ \E w \in Workers : WorkerExit(w)

Spec == Init /\ [][Next]_vars

\* --------------------------------------------------- the approximants' runs

InitApprox ==
    /\ HIdle
    /\ value \in Inputs
    /\ deg = 0
    /\ apc = "call"
    /\ result = NoResult

NextApprox == CallP1 \/ CallP2 \/ CallP3 \/ CallP4 \/ CallP5 \/ CallP6

SpecApprox == InitApprox /\ [][NextApprox]_vars

\* ------------------------------------------------------------- properties

\* the indices of worker w's half-open range [uStart, uEnd)
Range(w) == wStart[w] .. (wEnd[w] - 1)

\* every worker has been started
AllStarted == pc \in {"get", "join", "print", "done"}

Covered == UNION { Range(w) : w \in Workers }

Disjoint == \A a, b \in Workers : a # b => Range(a) \cap Range(b) = {}

\* each range is well-formed, the first starts at 0, each starts where the
\* one before it ends
Contiguous ==
    /\ \A w \in Workers : wStart[w] <= wEnd[w]
    /\ wStart[0] = 0
    /\ \A w \in Workers : w + 1 \in Workers => wStart[w + 1] = wEnd[w]

SetMax(S) == CHOOSE m \in S : \A x \in S : x <= m

\* the per-slot maximum of the measurements over a set of indices
\* (zero over no index, and zero in the unused seventh slot)
MaxOver(idxs) ==
    [k \in 1..NumSlots |->
        IF k <= NumApprox
          THEN SetMax({0} \cup { ErrAt(j)[k] : j \in idxs })
          ELSE 0]

\* C1: once all workers are started, their index ranges are pairwise
\* disjoint and their union is exactly {0, ..., N}, index N included.
C1_ClosedRangeCovered ==
    AllStarted => Disjoint /\ Covered = 0 .. uNumSamples

\* C2: the vector validateAccuracy(N, W) prints equals the one
\* validateAccuracy(N, 1) prints for the same N and the same measurements.
C2_SameAsSingleThreaded ==
    pc = "done" => out[1] = validateAccuracy(uNumSamples, 1)

\* C3: special-value policy of every approximant: +inf gives +inf; NaN and
\* -inf give NaN; a zero gives -inf; a finite negative input gives NaN; and
\* the frexp/rational branch is taken exactly for finite inputs > 0.  Every
\* call returns a value.
C3_SpecialValuePolicy ==
    apc = "ret" =>
      /\ result.kind \in {"special", "approx"}
      /\ result.degree = deg
      /\ (value.cls = "inf" /\ ~value.neg) => (result.kind = "special" /\ result.val = Inf(FALSE))
      /\ (value.cls = "nan") => (result.kind = "special" /\ result.val.cls = "nan")
      /\ (value.cls = "inf" /\ value.neg) => (result.kind = "special" /\ result.val.cls = "nan")
      /\ (value.cls = "fin" /\ value.mant = 0) => (result.kind = "special" /\ result.val = Inf(TRUE))
      /\ (value.cls = "fin" /\ value.mant > 0 /\ value.neg) =>
            (result.kind = "special" /\ result.val.cls = "nan")
      /\ (result.kind = "approx") <=> (value.cls = "fin" /\ value.mant > 0 /\ ~value.neg)

C3_Witness ==
    /\ apc = "ret"
    /\ deg = 6
    /\ value = Fin(TRUE, 0, 0)
    /\ result.kind = "special"
    /\ result.val = Inf(TRUE)

\* C4: a result is printed only after every worker has reported, and each
\* printed slot is the maximum of that slot over the workers' reported
\* vectors, which is the maximum of the measurements over every index
\* assigned to any worker.
C4_PrintedAfterAllReported ==
    /\ pc \in {"join", "print", "done"} => \A w \in Workers : promise[w].ready
    /\ out # << >> =>
         /\ \A w \in Workers : promise[w].ready
         /\ \A k \in 1..NumSlots :
              out[1][k] = SetMax({ promise[w].val[k] : w \in Workers })
         /\ out[1] = MaxOver(Covered)

C4_Witness ==
    /\ out # << >>
    /\ uNumThreads = 3
    /\ promise[0].val # promise[1].val
    /\ \A w \in Workers : out[1] # promise[w].val

\* C5: every started worker sets its promise at most once, and only after
\* its loop variable has reached uEnd; the value set is the per-slot maximum
\* over exactly the indices of its range (all zero for an empty range); when
\* validateAccuracy is done every worker has set its promise exactly once.
C5_PromiseSetOnceAfterSweep ==
    \A w \in Workers :
      /\ setCount[w] <= 1
      /\ promise[w].ready <=> setCount[w] = 1
      /\ promise[w].ready =>
           /\ wi[w] = wEnd[w]
           /\ promise[w].val = MaxOver(Range(w))
           /\ (Range(w) = {} => promise[w].val = ZeroError)
      /\ pc = "done" => setCount[w] = 1

C5_Witness ==
    /\ \E w \in Workers :
         /\ setCount[w] = 1
         /\ wEnd[w] - wStart[w] >= 2
         /\ promise[w].val # ZeroError
         /\ promise[w].val # ErrAt(wEnd[w] - 1) \o << 0 >>
    /\ \E w \in Workers : setCount[w] = 1 /\ wEnd[w] = wStart[w]

\* C6: when validateAccuracy has returned, every worker thread it created
\* has ended and has been joined, and it created exactly W threads.
C6_AllJoinedAtReturn ==
    pc = "done" =>
      /\ \A w \in Workers : joined[w] /\ wpc[w] = "terminated"
      /\ \A w \in AllW \ Workers : wpc[w] = "unborn"

C6_Witness == pc = "done" /\ uNumThreads = 3 /\ \A w \in Workers : joined[w]

\* C8: for a positive finite input the result is iExp + P(dM)/Q(dM) with
\* iExp an integer, value = dM * 2^iExp and 1/2 <= dM < 1; the rational
\* function is never evaluated at a mantissa outside [1/2, 1).
C8_Decomposition ==
    apc = "ret" =>
      /\ (value.cls = "fin" /\ value.mant > 0 /\ ~value.neg) =>
           /\ result.kind = "approx"
           /\ result.iExp \in Int
           /\ result.dM.cls = "fin" /\ ~result.dM.neg
           /\ value.mant * Pow2(value.exp + MaxExp + 2) =
                result.dM.mant * Pow2(result.dM.exp + result.iExp + MaxExp + 2)
      /\ result.kind = "approx" =>
           /\ result.dM.exp <= 0
           /\ 2 * result.dM.mant >= Pow2(0 - result.dM.exp)
           /\ result.dM.mant < Pow2(0 - result.dM.exp)

C8_Witness ==
    /\ apc = "ret"
    /\ deg = 4
    /\ value = Fin(FALSE, 5, 0 - 2)
    /\ result.kind = "approx"
    /\ result.iExp = 1
    /\ result.dM = Fin(FALSE, 5, 0 - 3)

\* C9 as stated: the ranges are contiguous and disjoint and their union is
\* exactly the half-open range [0, numSamples).
C9_HalfOpenCovered ==
    AllStarted =>
      Contiguous /\ Disjoint /\ Covered = 0 .. (uNumSamples - 1)

\* C9 amended: the ranges are contiguous half-open ranges, pairwise disjoint,
\* and their union is {0, ..., numSamples} when W >= 2 (the last range ends
\* at numSamples+1) and {0, ..., numSamples-1} when W = 1.
C9_PartitionExact ==
    AllStarted =>
      /\ Contiguous
      /\ Disjoint
      /\ Covered = IF uNumThreads = 1 THEN 0 .. (uNumSamples - 1)
                                      ELSE 0 .. uNumSamples

C9_Witness ==
    /\ pc = "done"
    /\ uNumThreads = 2
    /\ uNumSamples = 3
    /\ Range(0) = {0}
    /\ Range(1) = {1, 2, 3}

\* C10: for fixed N, W and measurements the printed vector is the same in
\* every interleaving (it is the one the sequential evaluation gives), and a
\* worker that has not ended can always take its next step, whatever the
\* other workers and the orchestrating thread are doing.
C10_InterleavingIndependent ==
    /\ pc = "done" => out[1] = validateAccuracy(uNumSamples, uNumThreads)
    /\ \A w \in Workers :
         wpc[w] \in {"loop", "return"} =>
           ENABLED (WorkerIter(w) \/ WorkerSetValue(w) \/ WorkerExit(w))

C10_Witness ==
    /\ pc = "done"
    /\ uNumThreads = 3
    /\ uNumSamples = 3
    /\ out[1] = << 2, 2, 2, 2, 2, 2, 0 >>
    /\ err[3] = << 0, 0, 0, 0, 0, 0 >>

=============================================================================
